---- MODULE Spec2Model ----
(***************************************************************************)
(* The provisioning saga of rhmk/power-playbooks: create a virtual-SCSI    *)
(* adapter pair, a logical volume and a mapping on a VIOS through the HMC, *)
(* in its two transport variants                                           *)
(*   "cli"  library/hmc_create_lpar_lv.py      (everything over SSH)       *)
(*   "api"  library/hmc_create_lpar_lv_api.py  (REST for lookups, SSH for  *)
(*          the slot queries and every change).                            *)
(* Two runs of main() execute against one controller; every remote call is *)
(* one atomic step of the run that issues it.                              *)
(*                                                                         *)
(* Environment (the HMC/VIOS; not code of the repository):                 *)
(*  - a command answers from the controller's state: an add of a resource  *)
(*    that exists answers nonzero with the duplicate message of that       *)
(*    command, an add of a resource that does not exist answers 0 and      *)
(*    creates it; an add with an empty slot or profile argument is         *)
(*    rejected;                                                            *)
(*  - any command may instead fail (nonzero, some other message) or the    *)
(*    transport may raise; a raised command has not been executed;         *)
(*  - cfgdev does not change the resources tracked here.                   *)
(* module.fail_json is Ansible's: it ends the process by raising           *)
(* SystemExit, which "except Exception" does not catch and "finally" sees. *)
(***************************************************************************)
EXTENDS Integers, Sequences, FiniteSets, TLC

VARIABLES
    run,    \* per run: the locals of main() and the position in it
    srv,    \* controller: server adapters of the VIOS, per virtual slot
    cli,    \* controller: client adapters in the LPAR's profile, per slot
    lv,     \* controller: the logical volume volume_name
    vtd,    \* controller: the mapping device vtd_name
    env,    \* what the surroundings may do: fail a call, take slots meanwhile
    calc    \* a function of main() applied on its own: its input and its result

vars == <<run, srv, cli, lv, vtd, env, calc>>

-----------------------------------------------------------------------------
(* Bounds *)

MaxSlots == 3           \* virtual slots per partition

Slots == 1..MaxSlots
Runs == {"r1", "r2"}
Variants == {"cli", "api"}

(* Who holds a controller resource: nobody, somebody before the runs, or a run. *)
(* A server adapter may also be there with no client partition assigned.     *)
Free == "free"
Other == "other"
Unassigned == "unassigned"
Owners == {Free, Other, Unassigned} \cup Runs

-----------------------------------------------------------------------------
(* Texts.  A message is a sequence of words; a listing is a sequence of      *)
(* characters.  Both are searched as Python's "in" searches a str.           *)

Contains(sub, text) ==
    \E i \in 1..(Len(text) - Len(sub) + 1) : SubSeq(text, i, i + Len(sub) - 1) = sub

(* The messages the controller is modelled to print. *)
Messages ==
    [ empty     |-> << >>,
      exists    |-> <<"HSCL", "already", "exists">>,
      specified |-> <<"virtual", "adapter", "has", "been", "specified", "twice">>,
      used      |-> <<"name", "already", "used">>,
      error     |-> <<"command", "failed">> ]

MsgNames == DOMAIN Messages

(* The benign-duplicate signature each mutating step looks for. *)
Kinds == {"server_adapter", "client_adapter", "lv", "vtd"}

Signature(kind) ==
    CASE kind = "none"           -> << >>
      [] kind = "server_adapter" -> <<"already", "exists">>
      [] kind = "client_adapter" -> <<"virtual", "adapter", "has", "been", "specified">>
      [] kind = "lv"             -> <<"already", "used">>
      [] kind = "vtd"            -> <<"already", "exists">>

(* The message name the controller prints for a duplicate of each kind. *)
DupMsg(kind) ==
    CASE kind = "server_adapter" -> "exists"
      [] kind = "client_adapter" -> "specified"
      [] kind = "lv"             -> "used"
      [] kind = "vtd"            -> "exists"

(* A step that takes every nonzero exit for a failure. *)
HardFailure_AnyNonzero(kind, rc, out, err) == rc # 0

(* rc != 0 and "<signature>" not in (out + err) *)
HardFailure(kind, rc, out, err) ==
    rc # 0 /\ ~Contains(Signature(kind), Messages[out] \o Messages[err])

-----------------------------------------------------------------------------
(* Records *)

Merge(rec, upd) ==
    [k \in DOMAIN rec |-> IF k \in DOMAIN upd THEN upd[k] ELSE rec[k]]

Set(r, upd) == run' = [run EXCEPT ![r] = Merge(@, upd)]

-----------------------------------------------------------------------------
(* Python's str operations on a text (a sequence of one-character strings). *)

Whitespace == {" ", "\n"}

RECURSIVE LStrip(_)
LStrip(t) == IF t # << >> /\ Head(t) \in Whitespace THEN LStrip(Tail(t)) ELSE t

RECURSIVE RStrip(_)
RStrip(t) ==
    IF t # << >> /\ t[Len(t)] \in Whitespace THEN RStrip(SubSeq(t, 1, Len(t) - 1)) ELSE t

(* str.strip() *)
Strip(t) == RStrip(LStrip(t))

(* str.split(sep) for a one-character sep: always at least one part. *)
RECURSIVE SplitAcc(_, _, _)
SplitAcc(t, sep, cur) ==
    IF t = << >> THEN <<cur>>
    ELSE IF Head(t) = sep THEN <<cur>> \o SplitAcc(Tail(t), sep, << >>)
    ELSE SplitAcc(Tail(t), sep, Append(cur, Head(t)))

Split(t, sep) == SplitAcc(t, sep, << >>)

(* str.splitlines(): lines end at "\n"; no empty last line after a final "\n". *)
SplitLines(t) ==
    LET parts == Split(t, "\n")
    IN  IF parts[Len(parts)] = << >> THEN SubSeq(parts, 1, Len(parts) - 1) ELSE parts

UpperToLower == [A |-> "a", B |-> "b", C |-> "c", D |-> "d", E |-> "e", F |-> "f",
                 X |-> "x", V |-> "v", U |-> "u"]

(* str.lower() on the letters the model's texts use *)
Lower(t) == [i \in 1..Len(t) |-> IF t[i] \in DOMAIN UpperToLower THEN UpperToLower[t[i]] ELSE t[i]]

DecDigits == <<"0", "1", "2", "3", "4", "5", "6", "7", "8", "9">>
HexDigits == DecDigits \o <<"a", "b", "c", "d", "e", "f">>

DigitValue(c) == (CHOOSE i \in 1..Len(DecDigits) : DecDigits[i] = c) - 1

(* Whether int(text) succeeds, for the texts of the model: a decimal numeral. *)
IsDecimal(t) == t # << >> /\ \A i \in 1..Len(t) : \E j \in 1..Len(DecDigits) : DecDigits[j] = t[i]

RECURSIVE DecValue(_)
DecValue(t) == IF t = << >> THEN 0 ELSE 10 * DecValue(SubSeq(t, 1, Len(t) - 1)) + DigitValue(t[Len(t)])

(* str(n) for n >= 0 *)
RECURSIVE DecText(_)
DecText(n) == IF n < 10 THEN <<DecDigits[n + 1]>> ELSE Append(DecText(n \div 10), DecDigits[(n % 10) + 1])

(* "%x" % n for n >= 0 *)
RECURSIVE HexText(_)
HexText(n) == IF n < 16 THEN <<HexDigits[n + 1]>> ELSE Append(HexText(n \div 16), HexDigits[(n % 16) + 1])

(* "%08x" % n: zero-padded on the left to at least 8 digits *)
RECURSIVE ZeroPad(_, _)
ZeroPad(t, width) == IF Len(t) >= width THEN t ELSE ZeroPad(<<"0">> \o t, width)

HexWidth == 8

(* A token without the padding: "0x%x" % n *)
PartIdHex_Unpadded(n) == <<"0", "x">> \o HexText(n)

(* part_id_hex = "0x%08x" % n *)
PartIdHex(n) == <<"0", "x">> \o ZeroPad(HexText(n), HexWidth)

(* A fallback to partition 1 instead of 0. *)
IntOrZero_One(t) == IF IsDecimal(t) THEN DecValue(t) ELSE 1

(* try: int(text) except ValueError: 0 *)
IntOrZero(t) == IF IsDecimal(t) THEN DecValue(t) ELSE 0

(* The vhost search over the output of lsmap -all:                          *)
(*   for line in out.splitlines():                                          *)
(*       if part_id_hex.lower() in line.lower():                            *)
(*           parts = line.split(":"); vhost = parts[0].strip(); break       *)
(* The result is the empty text when no line matches or when the first      *)
(* matching line has a blank first column ("if not vhost" then fails).      *)
Matches(line, part_id_hex) == Contains(Lower(part_id_hex), Lower(line))

FirstColumn(line) == Strip(Split(line, ":")[1])

(* A search without the break: the last matching line wins. *)
RECURSIVE FindVhostIn_NoBreak(_, _)
FindVhostIn_NoBreak(lines, part_id_hex) ==
    IF lines = << >> THEN << >>
    ELSE LET later == FindVhostIn_NoBreak(Tail(lines), part_id_hex)
         IN  IF later # << >> \/ ~Matches(Head(lines), part_id_hex)
             THEN later
             ELSE FirstColumn(Head(lines))

RECURSIVE FindVhostIn(_, _)
FindVhostIn(lines, part_id_hex) ==
    IF lines = << >> THEN << >>
    ELSE IF Matches(Head(lines), part_id_hex) THEN FirstColumn(Head(lines))
    ELSE FindVhostIn(Tail(lines), part_id_hex)

(* out.splitlines() is taken once; the loop then runs over its lines. *)
FindVhost(out, part_id_hex) ==
    CHOOSE vhost \in {FindVhostIn(lines, part_id_hex) : lines \in {SplitLines(out)}} : TRUE

(* A search whose result is never taken for missing. *)
VhostFound_Always(vhost) == TRUE

(* "if not vhost": the empty text is no vhost *)
VhostFound(vhost) == vhost # << >>

-----------------------------------------------------------------------------
(* The controller (HMC and VIOS) as the commands of main() see it.           *)

LparId == 10            \* numeric partition id of the target LPAR
OtherId == 2            \* partition id served by an adapter that was there before
ViosId == 1             \* numeric partition id of the VIOS

ProfileName == <<"p">>

ClientIdOf(owner) == IF owner = Other THEN OtherId ELSE IF owner = Unassigned THEN 0 ELSE LparId

(* lshwres ... -F next_avail_virtual_slot: the lowest free slot and a newline; *)
(* an empty line when every slot is taken.                                     *)
NextAvail(slots) ==
    IF \E s \in Slots : slots[s] = Free
    THEN DecText(CHOOSE s \in Slots : slots[s] = Free /\ \A u \in Slots : slots[u] = Free => s <= u)
             \o <<"\n">>
    ELSE <<"\n">>

(* The slot a command-line argument names, 0 when it names none. *)
SlotOf(t) == IF IsDecimal(t) /\ DecValue(t) \in Slots THEN DecValue(t) ELSE 0

VhostName(s) == <<"v", "h", "o", "s", "t">> \o DecText(s)

UpperHex == [a |-> "A", b |-> "B", c |-> "C", d |-> "D", e |-> "E", f |-> "F"]

(* The VIOS prints the client partition id with capital hex digits. *)
ListedId(n) ==
    LET h == ZeroPad(HexText(n), HexWidth)
    IN  <<"0", "x">> \o [i \in 1..Len(h) |-> IF h[i] \in DOMAIN UpperHex THEN UpperHex[h[i]] ELSE h[i]]

LsmapLine(s) ==
    VhostName(s) \o <<":", "U", "-", "C">> \o DecText(s) \o <<":">> \o ListedId(ClientIdOf(srv[s])) \o <<"\n">>

(* lsmap -all -fmt ':' : one line per server adapter, by slot *)
RECURSIVE LsmapFrom(_)
LsmapFrom(s) ==
    IF s > MaxSlots THEN << >>
    ELSE (IF srv[s] = Free THEN << >> ELSE LsmapLine(s)) \o LsmapFrom(s + 1)

LsmapAll == LsmapFrom(1)

(* Whether a text names a server adapter the VIOS has. *)
IsVhost(t) == \E s \in Slots : srv[s] # Free /\ VhostName(s) = t

(* What a remote command can answer: the controller's own answer, or a     *)
(* fault: a failure with some other message, or an exception of the         *)
(* transport.  "done" says that the command changed the controller.         *)
Answer(rc, out, err, done) ==
    [raised |-> FALSE, fault |-> FALSE, rc |-> rc, out |-> out, err |-> err, done |-> done]

Failed(msg) ==
    [raised |-> FALSE, fault |-> TRUE, rc |-> 1, out |-> "empty", err |-> msg, done |-> FALSE]

Raised ==
    [raised |-> TRUE, fault |-> TRUE, rc |-> 1, out |-> "empty", err |-> "empty", done |-> FALSE]

(* The messages a failing add of a kind may print: not the duplicate's. *)
FailureMsgs(kind) == {m \in MsgNames : m # "empty" /\ ~Contains(Signature(kind), Messages[m])}

Failures(kind) == IF env.faults THEN {Failed(m) : m \in FailureMsgs(kind)} \cup {Raised} ELSE {}

(* The duplicate message comes on stdout or on stderr. *)
Duplicate(kind) == {Answer(1, DupMsg(kind), "empty", FALSE), Answer(1, "empty", DupMsg(kind), FALSE)}

Performed == {Answer(0, "empty", "empty", TRUE)}

Rejected == {Answer(1, "empty", "error", FALSE)}

(* chhwres -o a -p vios -s vios_slot -a adapter_type=server,...,remote_slot_num=lpar_slot *)
AddServerAnswers(vios_slot, lpar_slot) ==
    Failures("server_adapter") \cup
    ( IF SlotOf(vios_slot) = 0 \/ SlotOf(lpar_slot) = 0 THEN Rejected
      ELSE IF srv[SlotOf(vios_slot)] # Free THEN Duplicate("server_adapter")
      ELSE Performed )

(* chsyscfg -r prof -i name=profile,...,virtual_scsi_adapters+=lpar_slot/client/vios_id/vios/vios_slot/0 *)
AddClientAnswers(profile_name, lpar_slot, vios_id, vios_slot) ==
    Failures("client_adapter") \cup
    ( IF profile_name = << >> \/ SlotOf(lpar_slot) = 0 \/ ~IsDecimal(vios_id) \/ SlotOf(vios_slot) = 0
      THEN Rejected
      ELSE IF cli[SlotOf(lpar_slot)] # Free THEN Duplicate("client_adapter")
      ELSE Performed )

(* mklv -lv volume_name volume_group <n>G *)
MklvAnswers ==
    Failures("lv") \cup (IF lv # Free THEN Duplicate("lv") ELSE Performed)

(* mkvdev -vdev volume_name -vadapter vhost -dev vtd_name *)
MkvdevAnswers(vhost) ==
    Failures("vtd") \cup
    ( IF lv = Free \/ ~IsVhost(vhost) THEN Rejected
      ELSE IF vtd # Free THEN Duplicate("vtd")
      ELSE Performed )

(* A removal answers 0 when the resource was there, nonzero otherwise. *)
RemoveAnswers(present) ==
    (IF env.faults THEN {Failed("error"), Raised} ELSE {}) \cup (IF present THEN Performed ELSE Rejected)

(* A query prints a value and a newline; it may print nothing, fail or raise. *)
Printed(text) == [raised |-> FALSE, fault |-> FALSE, rc |-> 0, out |-> text]

QueryFaults ==
    { [raised |-> FALSE, fault |-> TRUE, rc |-> 0, out |-> <<"\n">>],
      [raised |-> FALSE, fault |-> TRUE, rc |-> 1, out |-> << >>],
      [raised |-> TRUE,  fault |-> TRUE, rc |-> 1, out |-> << >>] }

QueryAnswers(text) == {Printed(text)} \cup (IF env.faults THEN QueryFaults ELSE {})

(* client.connect(...) succeeds, or raises *)
ConnectEnds == IF env.faults THEN BOOLEAN ELSE {TRUE}

-----------------------------------------------------------------------------
(* A run of main().                                                          *)

NoAnswer == [kind |-> "none", rc |-> 0, out |-> "empty", err |-> "empty"]

InitRun(v) ==
    [ variant        |-> v,
      pc             |-> "main",
      exc            |-> "none",     \* the exception in flight: none, Exception, SystemExit
      error          |-> "none",     \* str(e) of the Exception: where it was raised
      session_token  |-> "",         \* api: the REST token ("" is None)
      open           |-> FALSE,      \* client is connected and not closed
      connects       |-> 0,          \* client.connect() calls that succeeded
      closes         |-> 0,          \* client.close() calls
      logoffs        |-> 0,          \* rest_logoff() calls
      vios_id        |-> << >>,
      lpar_slot      |-> << >>,
      vios_slot      |-> << >>,
      profile_name   |-> << >>,
      part_id_hex    |-> << >>,
      changed        |-> FALSE,
      rollback       |-> << >>,
      vhost          |-> << >>,
      mapping        |-> FALSE,      \* result["mapping"] was set
      rb_i           |-> 0,          \* the position of "for step in rollback"
      outcome        |-> "none",     \* exit_json or fail_json, once called
      msg            |-> "none",     \* fail_json's msg
      cause          |-> "none",     \* the str(e) that msg ends with
      has_steps      |-> FALSE,      \* fail_json was given rollback_steps
      rollback_steps |-> << >>,
      has_lsmap_output |-> FALSE,    \* fail_json was given lsmap_output
      lsmap_output   |-> << >>,
      \* history, not read by the program
      after          |-> "n/a",      \* how the run began relative to the other one
      faulted        |-> FALSE,      \* some answer to the run was a fault
      rc0            |-> {},         \* kinds whose forward command returned 0
      last           |-> NoAnswer,   \* the latest answer to a forward mutating command or cfgdev
      comps          |-> << >>,      \* kinds whose compensating command was issued
      comp_ends      |-> << >>,      \* how each of them ended: ok, failed, raised
      touched        |-> FALSE,      \* a command of the run changed the controller
      issued         |-> << >>,      \* the forward statements executed: commands and the wait
      listed         |-> FALSE,      \* lsmap -all returned its listing
      listing        |-> << >>,      \* the listing it returned
      unparsed       |-> FALSE ]     \* int() of the target's partition id raised

CliSteps ==
    << "connect", "q_lpar_slot", "q_vios_slot", "q_vios_id", "q_profile",
       "add_server", "add_client", "sleep", "cfgdev", "q_part_id",
       "mklv", "lsmap_all", "mkvdev", "lsmap_vhost", "close" >>

ApiSteps ==
    << "logon", "get_ms", "get_lpar", "get_vios", "ssh_connect",
       "q_vios_id", "q_lpar_slot", "q_vios_slot", "q_profile",
       "add_server", "add_client", "sleep", "cfgdev",
       "mklv", "lsmap_all", "mkvdev", "lsmap_vhost", "close" >>

(* A forward sequence without the wait before cfgdev. *)
Steps_NoWait(v) == SelectSeq(IF v = "cli" THEN CliSteps ELSE ApiSteps, LAMBDA s : s # "sleep")

Steps(v) == IF v = "cli" THEN CliSteps ELSE ApiSteps

(* The statement that follows the one at pc in the forward sequence. *)
After(r) ==
    LET steps == Steps(run[r].variant)
        i == CHOOSE j \in 1..Len(steps) : steps[j] = run[r].pc
    IN  steps[i + 1]

(* api: the statements inside "try: ... finally: client.close()" *)
InnerTry == {ApiSteps[i] : i \in 6..(Len(ApiSteps) - 1)}

(* cli: the statements inside "try: ... except Exception ... finally" *)
CliTry == {CliSteps[i] : i \in 2..(Len(CliSteps) - 1)}

(* An Exception raised by the statement at pc: the api variant's inner       *)
(* finally closes the client first; then "except Exception as e".            *)
OnException(r) ==
    [ pc    |-> IF run[r].variant = "api" /\ run[r].pc \in InnerTry THEN "close" ELSE "except",
      exc   |-> "Exception",
      error |-> run[r].pc ]

(* A fail_json that raises an ordinary Exception: the handler catches it. *)
OnFailJson_Caught(r, msg) ==
    [ pc    |-> IF run[r].variant = "api" /\ run[r].pc \in InnerTry THEN "close" ELSE "except",
      exc   |-> "Exception",
      error |-> run[r].pc ]

(* module.fail_json(msg=...) inside the try: SystemExit passes "except       *)
(* Exception" and runs the finally blocks.                                   *)
OnFailJson(r, msg) ==
    [ pc      |-> IF run[r].variant = "api" /\ run[r].pc \notin InnerTry THEN "logoff" ELSE "close",
      exc     |-> "SystemExit",
      outcome |-> "fail_json",
      msg     |-> msg ]

(* A check of the exit status that no caller can turn off. *)
CheckRcFails_AnyNonzero(check_rc, rc) == rc # 0

(* run_ssh_command: (rc, out, err), or fail_json when check_rc and rc != 0 *)
CheckRcFails(check_rc, rc) == check_rc /\ rc # 0

RunSshCommand(r, ans, check_rc, returned) ==
    IF ans.raised THEN OnException(r)
    ELSE IF CheckRcFails(check_rc, ans.rc) THEN OnFailJson(r, "Command failed")
    ELSE returned

Issued(r) == [issued |-> Append(run[r].issued, run[r].pc)]

Noted(r, ans) == [faulted |-> run[r].faulted \/ ans.fault] @@ Issued(r)

(* A step that records itself whatever the exit status. *)
Recorded_Always(rollback, kind, rc) == Append(rollback, kind)

(* if rc == 0: changed = True; rollback.append(kind) *)
Recorded(rollback, kind, rc) == IF rc = 0 THEN Append(rollback, kind) ELSE rollback

(* A flag set by every step that was not a hard failure. *)
Changed_Always(changed, rc) == TRUE

Changed(changed, rc) == IF rc = 0 THEN TRUE ELSE changed

(* One "Ensure" step: classify the answer of the mutating command. *)
Ensure(r, kind, ans, msg) ==
    ( IF ans.raised THEN OnException(r)
      ELSE IF HardFailure(kind, ans.rc, ans.out, ans.err) THEN OnFailJson(r, msg)
      ELSE [ pc       |-> After(r),
             changed  |-> Changed(run[r].changed, ans.rc),
             rollback |-> Recorded(run[r].rollback, kind, ans.rc) ] )
    @@ [ last    |-> IF ans.raised THEN NoAnswer
                     ELSE [kind |-> kind, rc |-> ans.rc, out |-> ans.out, err |-> ans.err],
         rc0     |-> IF ~ans.raised /\ ans.rc = 0 THEN run[r].rc0 \cup {kind} ELSE run[r].rc0,
         touched |-> run[r].touched \/ ans.done ]
    @@ Noted(r, ans)

OtherRun(r) == CHOOSE o \in Runs : o # r

(* main() up to the first remote call: parameters and the result dict *)
Begin(r) ==
    /\ run[r].pc = "main"
    /\ r = "r1" \/ env.runs = "race" \/ (env.runs = "twice" /\ run["r1"].pc = "done")
    /\ Set(r, [ pc    |-> Steps(run[r].variant)[1],
                after |-> IF run[OtherRun(r)].pc = "main" THEN "first"
                          ELSE IF run[OtherRun(r)].pc = "done"
                               THEN (IF run[OtherRun(r)].outcome = "exit_json"
                                     THEN "after_success" ELSE "after_failure")
                          ELSE "during" ])
    /\ UNCHANGED <<srv, cli, lv, vtd, env, calc>>

(* cli: client.connect(...) before the try; a failure is fail_json at once *)
Connect(r) ==
    /\ run[r].pc = "connect"
    /\ \E ok \in ConnectEnds :
          Set(r, IF ok
                 THEN [pc |-> After(r), open |-> TRUE, connects |-> run[r].connects + 1]
                 ELSE [pc |-> "done", outcome |-> "fail_json", msg |-> "Failed to connect to HMC",
                       faulted |-> TRUE])
    /\ UNCHANGED <<srv, cli, lv, vtd, env, calc>>

(* A REST lookup of the api variant ends in a value, in fail_json (HTTP      *)
(* status, nothing found) or in an Exception (requests, the XML parser).     *)
RestEnds == IF env.faults THEN {"ok", "fail_json", "raise"} ELSE {"ok"}

RestStep(r, how, msg, returned) ==
    ( IF how = "raise" THEN OnException(r)
      ELSE IF how = "fail_json" THEN OnFailJson(r, msg)
      ELSE returned )
    @@ [faulted |-> run[r].faulted \/ how # "ok"]
    @@ Issued(r)

Unusual(r, odd) == [faulted |-> run[r].faulted \/ odd]

(* api: session_token = rest_logon(...) *)
RestLogon(r) ==
    /\ run[r].pc = "logon"
    /\ \E how \in RestEnds :
          Set(r, RestStep(r, how, "HMC REST Logon failed",
                          [pc |-> After(r), session_token |-> "token"]))
    /\ UNCHANGED <<srv, cli, lv, vtd, env, calc>>

(* api: ms_uuid = get_managed_system_uuid(...) *)
GetManagedSystemUuid(r) ==
    /\ run[r].pc = "get_ms"
    /\ \E how \in RestEnds :
          Set(r, RestStep(r, how, "ManagedSystem not found", [pc |-> After(r)]))
    /\ UNCHANGED <<srv, cli, lv, vtd, env, calc>>

(* The PartitionID texts a feed entry of the target LPAR may carry: its id,  *)
(* none, or something that is no number.                                     *)
FeedPartitionIds == {DecText(LparId)} \cup (IF env.faults THEN {<< >>, <<"n", "a">>} ELSE {})

(* api: lpar_info = get_lpar_info(...); part_id_hex = "0x%08x" % int(id or 0) *)
GetLparInfo(r) ==
    /\ run[r].pc = "get_lpar"
    /\ \E how \in RestEnds, partition_id \in FeedPartitionIds :
          Set(r, Unusual(r, how # "ok" \/ partition_id # DecText(LparId))
                 @@ RestStep(r, how, "LogicalPartition not found",
                             [ pc           |-> After(r),
                               unparsed     |-> ~IsDecimal(partition_id),
                               part_id_hex  |-> PartIdHex(IntOrZero(partition_id)) ]))
    /\ UNCHANGED <<srv, cli, lv, vtd, env, calc>>

(* The lpar_id texts a feed entry of the VIOS may carry: its id, none, a UUID. *)
FeedViosIds == {DecText(ViosId), << >>, <<"a", "-", "b">>}

(* if not vios_id or "-" in str(vios_id): vios_id = "" *)
NumericOrEmpty(id) == IF id = << >> \/ Contains(<<"-">>, id) THEN << >> ELSE id

(* api: vios_info = get_vios_info(...); vios_id = vios_info.get("lpar_id") or "" *)
GetViosInfo(r) ==
    /\ run[r].pc = "get_vios"
    /\ \E how \in RestEnds, lpar_id \in FeedViosIds :
          Set(r, RestStep(r, how, "VirtualIOServer not found",
                          [pc |-> After(r), vios_id |-> NumericOrEmpty(lpar_id)]))
    /\ UNCHANGED <<srv, cli, lv, vtd, env, calc>>

(* api: client.connect(...) inside the outer try, before the inner try;      *)
(* "if not vios_id" decides whether the lssyscfg query comes next.           *)
SshConnect(r) ==
    /\ run[r].pc = "ssh_connect"
    /\ \E ok \in ConnectEnds :
          Set(r, IF ok
                 THEN [ pc       |-> IF run[r].vios_id = << >> THEN "q_vios_id" ELSE "q_lpar_slot",
                        open     |-> TRUE,
                        connects |-> run[r].connects + 1 ]
                 ELSE OnException(r) @@ [faulted |-> TRUE])
    /\ UNCHANGED <<srv, cli, lv, vtd, env, calc>>

(* lssyscfg -r lpar -F lpar_id --filter lpar_names=vios_name; vios_id = out.strip() *)
QueryViosId(r) ==
    /\ run[r].pc = "q_vios_id"
    /\ \E ans \in QueryAnswers(DecText(ViosId) \o <<"\n">>) :
          Set(r, RunSshCommand(r, ans, TRUE, [pc |-> After(r), vios_id |-> Strip(ans.out)])
                 @@ Noted(r, ans))
    /\ UNCHANGED <<srv, cli, lv, vtd, env, calc>>

(* lshwres ... --filter lpar_names=lpar_name -F next_avail_virtual_slot *)
QueryLparSlot(r) ==
    /\ run[r].pc = "q_lpar_slot"
    /\ \E ans \in QueryAnswers(NextAvail(cli)) :
          Set(r, RunSshCommand(r, ans, TRUE, [pc |-> After(r), lpar_slot |-> Strip(ans.out)])
                 @@ Noted(r, ans))
    /\ UNCHANGED <<srv, cli, lv, vtd, env, calc>>

(* lshwres ... --filter lpar_names=vios_name -F next_avail_virtual_slot *)
QueryViosSlot(r) ==
    /\ run[r].pc = "q_vios_slot"
    /\ \E ans \in QueryAnswers(NextAvail(srv)) :
          Set(r, RunSshCommand(r, ans, TRUE, [pc |-> After(r), vios_slot |-> Strip(ans.out)])
                 @@ Noted(r, ans))
    /\ UNCHANGED <<srv, cli, lv, vtd, env, calc>>

(* lssyscfg -r prof --filter lpar_names=lpar_name -F name *)
QueryProfile(r) ==
    /\ run[r].pc = "q_profile"
    /\ \E ans \in QueryAnswers(ProfileName \o <<"\n">>) :
          Set(r, RunSshCommand(r, ans, TRUE, [pc |-> After(r), profile_name |-> Strip(ans.out)])
                 @@ Noted(r, ans))
    /\ UNCHANGED <<srv, cli, lv, vtd, env, calc>>

(* chhwres ... -o a: add the vSCSI server adapter on the VIOS *)
AddServerAdapter(r) ==
    /\ run[r].pc = "add_server"
    /\ \E ans \in AddServerAnswers(run[r].vios_slot, run[r].lpar_slot) :
          /\ Set(r, Ensure(r, "server_adapter", ans, "chhwres (add vSCSI server) failed"))
          /\ srv' = IF ans.done THEN [srv EXCEPT ![SlotOf(run[r].vios_slot)] = r] ELSE srv
    /\ UNCHANGED <<cli, lv, vtd, env, calc>>

(* chsyscfg ... virtual_scsi_adapters+=...: add the vSCSI client adapter *)
AddClientAdapter(r) ==
    /\ run[r].pc = "add_client"
    /\ \E ans \in AddClientAnswers(run[r].profile_name, run[r].lpar_slot,
                                  run[r].vios_id, run[r].vios_slot) :
          /\ Set(r, Ensure(r, "client_adapter", ans, "chsyscfg (add vSCSI client) failed"))
          /\ cli' = IF ans.done THEN [cli EXCEPT ![SlotOf(run[r].lpar_slot)] = r] ELSE cli
    /\ UNCHANGED <<srv, lv, vtd, env, calc>>

(* time.sleep(5) *)
Sleep(r) ==
    /\ run[r].pc = "sleep"
    /\ Set(r, [pc |-> After(r)] @@ Issued(r))
    /\ UNCHANGED <<srv, cli, lv, vtd, env, calc>>

(* cfgdev -dev vio0 changes nothing the run reads; it may fail with any text. *)
CfgdevAnswers ==
    {Answer(0, "empty", "empty", FALSE)} \cup
    (IF env.faults THEN {Failed(m) : m \in MsgNames \ {"empty"}} \cup {Raised} ELSE {})

(* run_viosvrcmd(..., "cfgdev -dev vio0", check_rc=False): the answer is dropped *)
Cfgdev(r) ==
    /\ run[r].pc = "cfgdev"
    /\ \E ans \in CfgdevAnswers :
          Set(r, RunSshCommand(r, ans, FALSE, [pc |-> After(r)])
                 @@ [last |-> IF ans.raised THEN NoAnswer
                              ELSE [kind |-> "cfgdev", rc |-> ans.rc, out |-> ans.out, err |-> ans.err]]
                 @@ Noted(r, ans))
    /\ UNCHANGED <<srv, cli, lv, vtd, env, calc>>

(* What lssyscfg -F lpar_id may print for the target LPAR. *)
PartitionIdOutputs ==
    {DecText(LparId) \o <<"\n">>} \cup (IF env.faults THEN {<<"n", "a", "\n">>} ELSE {})

(* cli: lssyscfg -r lpar -F lpar_id --filter lpar_names=lpar_name;           *)
(* part_id_hex = "0x%08x" % int(out.strip()), 0 on ValueError                *)
QueryPartitionId(r) ==
    /\ run[r].pc = "q_part_id"
    /\ \E text \in PartitionIdOutputs :
       \E ans \in QueryAnswers(text) :
          Set(r, Unusual(r, ans.fault \/ text # DecText(LparId) \o <<"\n">>)
                 @@ RunSshCommand(r, ans, TRUE,
                                  [ pc           |-> After(r),
                                    unparsed     |-> ~IsDecimal(Strip(ans.out)),
                                    part_id_hex  |-> PartIdHex(IntOrZero(Strip(ans.out))) ])
                 @@ Issued(r))
    /\ UNCHANGED <<srv, cli, lv, vtd, env, calc>>

(* viosvrcmd mklv: create the logical volume *)
Mklv(r) ==
    /\ run[r].pc = "mklv"
    /\ \E ans \in MklvAnswers :
          /\ Set(r, Ensure(r, "lv", ans, "viosvrcmd mklv failed"))
          /\ lv' = IF ans.done THEN r ELSE lv
    /\ UNCHANGED <<srv, cli, vtd, env, calc>>

(* viosvrcmd lsmap -all -fmt ':' and the search for the vhost;               *)
(* "if not vhost: module.fail_json(msg='No vhost adapter found ...')"        *)
FindVhostStep(r) ==
    /\ run[r].pc = "lsmap_all"
    /\ \E ans \in QueryAnswers(LsmapAll) \ {a \in QueryFaults : a.rc = 0} :
       \E vhost \in {FindVhost(ans.out, run[r].part_id_hex)} :
          Set(r, RunSshCommand(r, ans, TRUE,
                               ( IF ~VhostFound(vhost)
                                 THEN OnFailJson(r, "No vhost adapter found")
                                      @@ [has_lsmap_output |-> TRUE, lsmap_output |-> ans.out]
                                 ELSE [pc |-> After(r), vhost |-> vhost] )
                               @@ [listed |-> TRUE, listing |-> ans.out])
                 @@ Noted(r, ans))
    /\ UNCHANGED <<srv, cli, lv, vtd, env, calc>>

(* viosvrcmd mkvdev: map the volume to the vhost *)
Mkvdev(r) ==
    /\ run[r].pc = "mkvdev"
    /\ \E ans \in MkvdevAnswers(run[r].vhost) :
          /\ Set(r, Ensure(r, "vtd", ans, "viosvrcmd mkvdev failed"))
          /\ vtd' = IF ans.done THEN r ELSE vtd
    /\ UNCHANGED <<srv, cli, lv, env, calc>>

(* viosvrcmd lsmap -vadapter vhost: result["mapping"] = out.strip() *)
LsmapVerify(r) ==
    /\ run[r].pc = "lsmap_vhost"
    /\ \E ans \in QueryAnswers(<<"\n">>) \ {a \in QueryFaults : a.rc = 0} :
          Set(r, RunSshCommand(r, ans, TRUE, [pc |-> After(r), mapping |-> TRUE]) @@ Noted(r, ans))
    /\ UNCHANGED <<srv, cli, lv, vtd, env, calc>>

(* A close that is not in a finally: skipped when fail_json has ended the run. *)
CloseClient_NotOnExit(r) ==
    /\ run[r].pc = "close"
    /\ Set(r, [ pc     |-> IF run[r].variant = "cli"
                           THEN (IF run[r].exc = "none" THEN "exit_json" ELSE "done")
                           ELSE (IF run[r].exc = "Exception" THEN "except" ELSE "logoff"),
                open   |-> IF run[r].exc = "SystemExit" THEN run[r].open ELSE FALSE,
                closes |-> IF run[r].exc = "SystemExit" THEN run[r].closes ELSE run[r].closes + 1 ])
    /\ UNCHANGED <<srv, cli, lv, vtd, env, calc>>

(* finally: client.close()  (cli: the only finally; api: the inner one) *)
CloseClient(r) ==
    /\ run[r].pc = "close"
    /\ Set(r, [ pc     |-> IF run[r].variant = "cli"
                           THEN (IF run[r].exc = "none" THEN "exit_json" ELSE "done")
                           ELSE (IF run[r].exc = "Exception" THEN "except" ELSE "logoff"),
                open   |-> FALSE,
                closes |-> run[r].closes + 1 ])
    /\ UNCHANGED <<srv, cli, lv, vtd, env, calc>>

(* A handler that walks the list as it was recorded. *)
Reverse_Forward(list) == list

(* list.reverse() *)
RECURSIVE Reverse(_)
Reverse(list) == IF list = << >> THEN << >> ELSE Append(Reverse(Tail(list)), Head(list))

(* A handler that asks the controller for the slots again before it undoes. *)
Except_Requery(r) ==
    /\ run[r].pc = "except"
    /\ Set(r, [ pc        |-> IF run[r].rollback = << >> THEN "fail_rollback"
                              ELSE IF run[r].variant = "cli" THEN "rollback" ELSE "rollback_connect",
                exc       |-> "none",
                rollback  |-> Reverse(run[r].rollback),
                rb_i      |-> 1,
                lpar_slot |-> Strip(NextAvail(cli)),
                vios_slot |-> Strip(NextAvail(srv)) ])
    /\ UNCHANGED <<srv, cli, lv, vtd, env, calc>>

(* except Exception as e:                                                    *)
(*   cli: rollback.reverse(); for step in rollback: ...                      *)
(*   api: if rollback: rollback.reverse(); client = ...; client.connect(...) *)
Except(r) ==
    /\ run[r].pc = "except"
    /\ Set(r, [ pc       |-> IF run[r].rollback = << >> THEN "fail_rollback"
                             ELSE IF run[r].variant = "cli" THEN "rollback" ELSE "rollback_connect",
                exc      |-> "none",
                rollback |-> Reverse(run[r].rollback),
                rb_i     |-> 1 ])
    /\ UNCHANGED <<srv, cli, lv, vtd, env, calc>>

(* A handler that goes on with the client of the forward steps. *)
RollbackConnect_Reuse(r) ==
    /\ run[r].pc = "rollback_connect"
    /\ Set(r, [pc |-> "rollback"])
    /\ UNCHANGED <<srv, cli, lv, vtd, env, calc>>

(* api: the rollback's own client.connect(...); its Exception is swallowed   *)
(* by the "except Exception: pass" around the whole rollback.                *)
RollbackConnect(r) ==
    /\ run[r].pc = "rollback_connect"
    /\ \E ok \in ConnectEnds :
          Set(r, IF ok
                 THEN [pc |-> "rollback", open |-> TRUE, connects |-> run[r].connects + 1]
                 ELSE [pc |-> "fail_rollback"])
    /\ UNCHANGED <<srv, cli, lv, vtd, env, calc>>

(* A handler whose branches issue their command in the cli variant only. *)
Compensates_CliOnly(r, step) == run[r].variant = "cli"

(* Whether the branch of a step issues its command:                          *)
(*   api: elif step == "client_adapter" and profile_name and lpar_slot       *)
(*        elif step == "server_adapter" and vios_slot                        *)
Compensates(r, step) ==
    \/ run[r].variant = "cli"
    \/ step \in {"vtd", "lv"}
    \/ step = "client_adapter" /\ run[r].profile_name # << >> /\ run[r].lpar_slot # << >>
    \/ step = "server_adapter" /\ run[r].vios_slot # << >>

(* Whether the resource a compensating command names is there. *)
Present(r, step) ==
    CASE step = "vtd" -> vtd # Free
      [] step = "lv"  -> lv # Free
      [] step = "client_adapter" -> SlotOf(run[r].lpar_slot) # 0 /\ cli[SlotOf(run[r].lpar_slot)] # Free
      [] step = "server_adapter" -> SlotOf(run[r].vios_slot) # 0 /\ srv[SlotOf(run[r].vios_slot)] # Free

(* A cli handler that does not report the failure: the run goes on to the   *)
(* finally block and to exit_json.                                           *)
AfterRollback_FallsThrough(r) == IF run[r].variant = "cli" THEN "close" ELSE "rollback_close"

(* The statement after the rollback loop. *)
AfterRollback(r) == IF run[r].variant = "cli" THEN "fail_rollback" ELSE "rollback_close"

(* A loop without the inner try: an Exception of a command ends it. *)
LoopContinues_UntilRaise(r, ans) ==
    [ pc   |-> IF run[r].rb_i = Len(run[r].rollback) \/ ans.raised
               THEN (IF run[r].variant = "cli" THEN "fail_rollback" ELSE "rollback_close")
               ELSE "rollback",
      rb_i |-> run[r].rb_i + 1 ]

(* Where the loop goes after a step's command has answered or raised:        *)
(*   try: <command, check_rc=False>  except Exception: pass                  *)
(* so to the next step, whatever the answer.                                 *)
LoopContinues(r, ans) ==
    [ pc   |-> IF run[r].rb_i = Len(run[r].rollback) THEN AfterRollback(r) ELSE "rollback",
      rb_i |-> run[r].rb_i + 1 ]

HowEnded(ans) == IF ans.raised THEN "raised" ELSE IF ans.rc # 0 THEN "failed" ELSE "ok"

(* One pass of "for step in rollback": the compensating command of the step  *)
(* (rmvdev, rmlv, chsyscfg -=, chhwres -o r).                                *)
RollbackStep(r) ==
    /\ run[r].pc = "rollback"
    /\ LET step == run[r].rollback[run[r].rb_i]
           next == LoopContinues(r, Answer(0, "empty", "empty", FALSE))
       IN  IF Compensates(r, step)
           THEN \E ans \in RemoveAnswers(Present(r, step)) :
                   /\ Set(r, LoopContinues(r, ans)
                             @@ [ comps     |-> Append(run[r].comps, step),
                                  comp_ends |-> Append(run[r].comp_ends, HowEnded(ans)),
                                  touched   |-> run[r].touched \/ ans.done ])
                   /\ vtd' = IF ans.done /\ step = "vtd" THEN Free ELSE vtd
                   /\ lv'  = IF ans.done /\ step = "lv" THEN Free ELSE lv
                   /\ cli' = IF ans.done /\ step = "client_adapter"
                             THEN [cli EXCEPT ![SlotOf(run[r].lpar_slot)] = Free] ELSE cli
                   /\ srv' = IF ans.done /\ step = "server_adapter"
                             THEN [srv EXCEPT ![SlotOf(run[r].vios_slot)] = Free] ELSE srv
                   /\ UNCHANGED <<env, calc>>
           ELSE Set(r, next) /\ UNCHANGED <<srv, cli, lv, vtd, env, calc>>

(* api: client.close() after the rollback loop *)
RollbackClose(r) ==
    /\ run[r].pc = "rollback_close"
    /\ Set(r, [pc |-> "fail_rollback", open |-> FALSE, closes |-> run[r].closes + 1])
    /\ UNCHANGED <<srv, cli, lv, vtd, env, calc>>

(* A handler that ends the run without reporting anything. *)
FailJsonRollback_Silent(r) ==
    /\ run[r].pc = "fail_rollback"
    /\ Set(r, [ pc  |-> IF run[r].variant = "cli" THEN "close" ELSE "logoff",
                exc |-> "SystemExit" ])
    /\ UNCHANGED <<srv, cli, lv, vtd, env, calc>>

(* module.fail_json(msg="... failed (rollback ...): %s" % str(e),            *)
(*                  rollback_steps=rollback), at the end of the handler      *)
FailJsonRollback(r) ==
    /\ run[r].pc = "fail_rollback"
    /\ Set(r, [ pc             |-> IF run[r].variant = "cli" THEN "close" ELSE "logoff",
                exc            |-> "SystemExit",
                outcome        |-> "fail_json",
                msg            |-> "failed (rollback)",
                cause          |-> run[r].error,
                has_steps      |-> TRUE,
                rollback_steps |-> run[r].rollback ])
    /\ UNCHANGED <<srv, cli, lv, vtd, env, calc>>

(* api: finally: if session_token: rest_logoff(...) *)
RestLogoff(r) ==
    /\ run[r].pc = "logoff"
    /\ Set(r, [ pc      |-> IF run[r].exc = "none" THEN "exit_json" ELSE "done",
                logoffs |-> IF run[r].session_token # "" THEN run[r].logoffs + 1 ELSE run[r].logoffs ])
    /\ UNCHANGED <<srv, cli, lv, vtd, env, calc>>

(* module.exit_json(changed=changed, **result) *)
ExitJson(r) ==
    /\ run[r].pc = "exit_json"
    /\ Set(r, [pc |-> "done", outcome |-> "exit_json"])
    /\ UNCHANGED <<srv, cli, lv, vtd, env, calc>>

-----------------------------------------------------------------------------
(* Two runs against one controller, which may hold the volume, the mapping   *)
(* device and one server adapter of another partition from before.           *)

NoCalc == [fn |-> "none"]

InitState ==
    /\ calc = NoCalc
    /\ run \in [Runs -> {InitRun(v) : v \in Variants}]
    /\ srv \in {[s \in Slots |-> IF s = 1 THEN o ELSE Free] : o \in {Free, Other, Unassigned}}
    /\ cli = [s \in Slots |-> Free]
    /\ lv \in {Free, Other}
    /\ vtd \in {Free, Other}

(* One run; calls may fail, and somebody else may take a slot meanwhile. *)
Init ==
    /\ InitState
    /\ srv[1] # Unassigned
    /\ run["r2"].variant = run["r1"].variant
    /\ env = [runs |-> "single", faults |-> TRUE, others |-> TRUE, taken |-> 0]

(* Somebody else adds an adapter in the slot that is the next available,     *)
(* between a run's slot query and its add of the adapters.                   *)
MaxOthers == 2          \* adapters that somebody else adds while the run is there

RaceWindow == {"q_vios_slot", "q_vios_id", "q_profile", "add_server", "add_client"}

LowestFree(slots) == CHOOSE s \in Slots : slots[s] = Free /\ \A u \in Slots : slots[u] = Free => s <= u

OtherTakesSlot ==
    /\ env.others
    /\ env.taken < MaxOthers
    /\ \E r \in Runs : run[r].pc \in RaceWindow
    /\ \/ /\ \E s \in Slots : srv[s] = Free
          /\ srv' = [srv EXCEPT ![LowestFree(srv)] = Other]
          /\ UNCHANGED cli
       \/ /\ \E s \in Slots : cli[s] = Free
          /\ cli' = [cli EXCEPT ![LowestFree(cli)] = Other]
          /\ UNCHANGED srv
    /\ env' = [env EXCEPT !.taken = @ + 1]
    /\ UNCHANGED <<run, lv, vtd, calc>>

Step(r) ==
    \/ Begin(r)
    \/ Connect(r)
    \/ RestLogon(r)
    \/ GetManagedSystemUuid(r)
    \/ GetLparInfo(r)
    \/ GetViosInfo(r)
    \/ SshConnect(r)
    \/ QueryViosId(r)
    \/ QueryLparSlot(r)
    \/ QueryViosSlot(r)
    \/ QueryProfile(r)
    \/ AddServerAdapter(r)
    \/ AddClientAdapter(r)
    \/ Sleep(r)
    \/ Cfgdev(r)
    \/ QueryPartitionId(r)
    \/ Mklv(r)
    \/ FindVhostStep(r)
    \/ Mkvdev(r)
    \/ LsmapVerify(r)
    \/ CloseClient(r)
    \/ Except(r)
    \/ RollbackConnect(r)
    \/ RollbackStep(r)
    \/ RollbackClose(r)
    \/ FailJsonRollback(r)
    \/ RestLogoff(r)
    \/ ExitJson(r)

Next == OtherTakesSlot \/ \E r \in Runs : Step(r)

Spec == Init /\ [][Next]_vars

(* One run on a controller that has none of the resources yet; calls may     *)
(* fail and somebody else may take a slot.  main() is sequential code and    *)
(* every remote call returns or raises: a run that has a next statement      *)
(* executes it.                                                              *)
InitLive ==
    /\ Init
    /\ srv = [s \in Slots |-> Free]
    /\ lv = Free
    /\ vtd = Free

LiveSpec == InitLive /\ [][Next]_vars /\ \A r \in Runs : WF_vars(Step(r))

-----------------------------------------------------------------------------
(* One run on a controller whose VIOS has, in slot 1, a server adapter with  *)
(* no client partition assigned: lsmap lists it with partition id 0.         *)

InitUnassigned ==
    /\ InitState
    /\ run["r2"].variant = run["r1"].variant
    /\ srv = [s \in Slots |-> IF s = 1 THEN Unassigned ELSE Free]
    /\ env = [runs |-> "single", faults |-> TRUE, others |-> TRUE, taken |-> 0]

SpecUnassigned == InitUnassigned /\ [][Next]_vars

-----------------------------------------------------------------------------
(* A second run after a first one has ended, with the same parameters, and   *)
(* nothing failing and nobody else at work.                                  *)

InitTwice ==
    /\ InitState
    /\ srv[1] # Unassigned
    /\ env = [runs |-> "twice", faults |-> FALSE, others |-> FALSE, taken |-> 0]

Forward(r) ==
    \/ Begin(r)
    \/ Connect(r)
    \/ RestLogon(r)
    \/ GetManagedSystemUuid(r)
    \/ GetLparInfo(r)
    \/ GetViosInfo(r)
    \/ SshConnect(r)
    \/ QueryViosId(r)
    \/ QueryLparSlot(r)
    \/ QueryViosSlot(r)
    \/ QueryProfile(r)
    \/ AddServerAdapter(r)
    \/ AddClientAdapter(r)
    \/ Sleep(r)
    \/ Cfgdev(r)
    \/ QueryPartitionId(r)
    \/ Mklv(r)
    \/ FindVhostStep(r)
    \/ Mkvdev(r)
    \/ LsmapVerify(r)
    \/ CloseClient(r)
    \/ RestLogoff(r)
    \/ ExitJson(r)

NextTwice == \E r \in Runs : Forward(r)

SpecTwice == InitTwice /\ [][NextTwice]_vars

-----------------------------------------------------------------------------
(* Two runs with the same parameters at the same time on a controller that   *)
(* has none of the resources yet, nothing failing and nobody else at work:   *)
(* their statements interleave in any order.                                 *)

InitRace ==
    /\ InitState
    /\ srv = [s \in Slots |-> Free]
    /\ lv = Free
    /\ vtd = Free
    /\ env = [runs |-> "race", faults |-> FALSE, others |-> FALSE, taken |-> 0]

NextRace == \E r \in Runs : Forward(r)

SpecRace == InitRace /\ [][NextRace]_vars

-----------------------------------------------------------------------------
(* The vhost search of main() on its own, over listings of lsmap -all:       *)
(* lines "<first column>:<rest>", where each part is known by construction   *)
(* to carry a partition id or none (0).                                      *)

MaxLines == 2

Column(text, name, id) == [text |-> text, name |-> name, id |-> id]

Ids == {LparId, OtherId}

FirstColumns ==
    { Column(<< >>, << >>, 0),
      Column(<<" ">>, << >>, 0),
      Column(VhostName(1), VhostName(1), 0),
      Column(<<" ">> \o VhostName(2) \o <<" ">>, VhostName(2), 0) }
    \cup { Column(ListedId(n), ListedId(n), n) : n \in Ids }

RestColumns ==
    { Column(<<"U", "-", "C", "1">>, << >>, 0) }
    \cup { Column(<<"U", ":">> \o ListedId(n) \o <<"b">>, << >>, n) : n \in Ids }

ListingLines == [first : FirstColumns, rest : RestColumns]

LineText(l) == l.first.text \o <<":">> \o l.rest.text

Listings == UNION { [1..k -> ListingLines] : k \in 0..MaxLines }

RECURSIVE JoinLines(_)
JoinLines(ls) ==
    IF ls = << >> THEN << >>
    ELSE IF Len(ls) = 1 THEN LineText(ls[1])
    ELSE LineText(Head(ls)) \o <<"\n">> \o JoinLines(Tail(ls))

(* The listing as the command prints it, with or without a last newline. *)
ListingText(ls, nl) == JoinLines(ls) \o (IF nl /\ ls # << >> THEN <<"\n">> ELSE << >>)

InitVhost ==
    /\ run = [r \in Runs |-> InitRun("cli")]
    /\ srv = [s \in Slots |-> Free]
    /\ cli = [s \in Slots |-> Free]
    /\ lv = Free
    /\ vtd = Free
    /\ env = [runs |-> "none", faults |-> FALSE, others |-> FALSE, taken |-> 0]
    /\ \E ls \in Listings, nl \in BOOLEAN, n \in Ids :
          calc = [ fn          |-> "FindVhost",
                   lines       |-> ls,
                   out         |-> ListingText(ls, nl),
                   id          |-> n,
                   part_id_hex |-> PartIdHex(n),
                   searched    |-> FALSE,
                   vhost       |-> << >>,
                   found       |-> FALSE ]

ResolveVhost ==
    /\ calc.fn = "FindVhost"
    /\ ~calc.searched
    /\ LET vhost == FindVhost(calc.out, calc.part_id_hex)
       IN  calc' = [calc EXCEPT !.searched = TRUE, !.vhost = vhost, !.found = VhostFound(vhost)]
    /\ UNCHANGED <<run, srv, cli, lv, vtd, env>>

NextVhost == ResolveVhost

SpecVhost == InitVhost /\ [][NextVhost]_vars

-----------------------------------------------------------------------------
(* The name of the mapping device, as main() derives it before any command:  *)
(*   vtd_name = params["vtd_name"] or                                        *)
(*              (lpar_name[:11] if len(lpar_name) > 11 else lpar_name) + "_vtd" *)
(*   if len(vtd_name) > 15: vtd_name = vtd_name[:15]                         *)

MaxNameLen == 17

LparPrefixLen == 11
VtdMaxLen == 15

(* t[:n] *)
Take(t, n) == SubSeq(t, 1, IF n < Len(t) THEN n ELSE Len(t))

(* The parameter vtd_name: None (not given), or a text. *)
None == [given |-> FALSE, text |-> << >>]
Given(text) == [given |-> TRUE, text |-> text]

(* "x or y": None and the empty text are false *)
Truthy(param) == param.given /\ param.text # << >>

VtdSuffix == <<"_", "v", "t", "d">>

(* A derivation that appends "_vtd" to the whole of lpar_name. *)
VtdName_WholeLparName(param, lpar_name) ==
    LET name == IF Truthy(param) THEN param.text ELSE lpar_name \o VtdSuffix
    IN  IF Len(name) > VtdMaxLen THEN Take(name, VtdMaxLen) ELSE name

VtdName(param, lpar_name) ==
    LET name == IF Truthy(param)
                THEN param.text
                ELSE (IF Len(lpar_name) > LparPrefixLen THEN Take(lpar_name, LparPrefixLen) ELSE lpar_name)
                     \o VtdSuffix
    IN  IF Len(name) > VtdMaxLen THEN Take(name, VtdMaxLen) ELSE name

(* Names of every length up to MaxNameLen, no character twice in a name. *)
LparLetters == <<"a", "b", "c", "d", "e", "f", "g", "h", "i", "j", "k", "l", "m", "n", "o", "p", "q", "r">>
VtdLetters  == <<"A", "B", "C", "D", "E", "F", "G", "H", "I", "J", "K", "L", "M", "N", "O", "P", "Q", "R">>

NamesOf(letters) == {Take(letters, n) : n \in 0..MaxNameLen}

InitVtd ==
    /\ run = [r \in Runs |-> InitRun("cli")]
    /\ srv = [s \in Slots |-> Free]
    /\ cli = [s \in Slots |-> Free]
    /\ lv = Free
    /\ vtd = Free
    /\ env = [runs |-> "none", faults |-> FALSE, others |-> FALSE, taken |-> 0]
    /\ \E lpar_name \in NamesOf(LparLetters),
          param \in {None} \cup {Given(t) : t \in NamesOf(VtdLetters)} :
          calc = [ fn        |-> "VtdName",
                   lpar_name |-> lpar_name,
                   param     |-> param,
                   derived   |-> FALSE,
                   vtd_name  |-> << >> ]

DeriveVtdName ==
    /\ calc.fn = "VtdName"
    /\ ~calc.derived
    /\ calc' = [calc EXCEPT !.derived = TRUE, !.vtd_name = VtdName(calc.param, calc.lpar_name)]
    /\ UNCHANGED <<run, srv, cli, lv, vtd, env>>

NextVtd == DeriveVtdName

SpecVtd == InitVtd /\ [][NextVtd]_vars

-----------------------------------------------------------------------------
(* The partition lookup of the hybrid variant, get_lpar_info, on its own,    *)
(* over LogicalPartition feeds.  A feed is a sequence of entries; an entry   *)
(* is the sequence of its elements in document order (entry.iter()); an      *)
(* element has a local tag, a text ("" and None are the empty text) and at   *)
(* most one name attribute.                                                  *)

MaxEntries == 2         \* entries of a feed

(* ("PartitionName", "partitionName", "name", "Name"), in the order tried *)
NameTags == <<"PartitionName", "partitionName", "name", "Name">>

(* _find_name_in_entry: lpar_name when the stripped text of an element with  *)
(* a name tag, or a name attribute of any element, equals it; else None.     *)
FindNameInEntry(entry, lpar_name) ==
    IF \E i \in 1..Len(entry) :
          \/ /\ \E t \in 1..Len(NameTags) : NameTags[t] = entry[i].tag
             /\ Strip(entry[i].text) # << >>
             /\ Strip(entry[i].text) = lpar_name
          \/ entry[i].attr.given /\ entry[i].attr.text = lpar_name
    THEN lpar_name
    ELSE << >>

(* _find_text_in_entry: the stripped text of the first element whose local   *)
(* tag is among local_names and whose text is not empty; else None.          *)
FindTextInEntry(entry, local_names) ==
    LET hits == SelectSeq(entry, LAMBDA e : e.tag \in local_names /\ e.text # << >>)
    IN  IF hits = << >> THEN << >> ELSE Strip(Head(hits).text)

(* _entry_get_any_name: the first non-empty text found tag by tag, else the  *)
(* name attribute of the first element that has one, else None.              *)
RECURSIVE FirstNameText(_, _)
FirstNameText(entry, tags) ==
    IF tags = << >> THEN << >>
    ELSE LET val == FindTextInEntry(entry, {Head(tags)})
         IN  IF val # << >> THEN val ELSE FirstNameText(entry, Tail(tags))

EntryGetAnyName(entry) ==
    LET val == FirstNameText(entry, NameTags)
        attrs == SelectSeq(entry, LAMBDA e : e.attr.given)
    IN  IF val # << >> THEN val
        ELSE IF attrs # << >> THEN Head(attrs).attr.text
        ELSE << >>

(* The local "name" of get_lpar_info's loop body for one entry: the exact    *)
(* match, else the first name text when equal, else the case-insensitive     *)
(* fallback on the entry's any-name; empty when the entry is passed over.    *)
NameOfEntry(entry, lpar_name) ==
    LET exact == FindNameInEntry(entry, lpar_name)
        first == FindTextInEntry(entry, {NameTags[t] : t \in 1..Len(NameTags)})
        any   == EntryGetAnyName(entry)
    IN  IF exact # << >> THEN exact
        ELSE IF first # << >> /\ first = lpar_name THEN first
        ELSE IF any # << >> /\ Lower(Strip(any)) = Lower(Strip(lpar_name)) THEN any
        ELSE << >>

(* for entry in entries: ... if name: return {...}; the index of the entry   *)
(* returned, 0 for fail_json "LogicalPartition not found".                   *)
RECURSIVE GetLparInfoFrom(_, _, _)
GetLparInfoFrom(entries, lpar_name, i) ==
    IF i > Len(entries) THEN 0
    ELSE IF NameOfEntry(entries[i], lpar_name) # << >> THEN i
    ELSE GetLparInfoFrom(entries, lpar_name, i + 1)

(* The elements the feeds of the model are made of. *)
FeedElements ==
    { [tag |-> "PartitionName", text |-> <<"a">>,      attr |-> None],
      [tag |-> "PartitionName", text |-> <<"A">>,      attr |-> None],
      [tag |-> "PartitionName", text |-> <<"b">>,      attr |-> None],
      [tag |-> "PartitionName", text |-> <<" ", "a">>, attr |-> None],
      [tag |-> "Name",          text |-> <<"a">>,      attr |-> None],
      [tag |-> "id",            text |-> <<"a">>,      attr |-> None],
      [tag |-> "id",            text |-> << >>,        attr |-> Given(<<"a">>)],
      [tag |-> "id",            text |-> << >>,        attr |-> Given(<<"A">>)] }

(* Feeds of entries with one or two elements. *)
Feeds ==
    LET FeedEntries == {<<e>> : e \in FeedElements} \cup {<<e, f>> : e, f \in FeedElements}
    IN  UNION { [1..k -> FeedEntries] : k \in 0..MaxEntries }

InitLpar ==
    /\ run = [r \in Runs |-> InitRun("api")]
    /\ srv = [s \in Slots |-> Free]
    /\ cli = [s \in Slots |-> Free]
    /\ lv = Free
    /\ vtd = Free
    /\ env = [runs |-> "none", faults |-> FALSE, others |-> FALSE, taken |-> 0]
    /\ \E entries \in Feeds, lpar_name \in {<<"a">>, <<"A">>} :
          calc = [ fn        |-> "GetLparInfo",
                   entries   |-> entries,
                   lpar_name |-> lpar_name,
                   looked    |-> FALSE,
                   selected  |-> 0 ]

LookupLpar ==
    /\ calc.fn = "GetLparInfo"
    /\ ~calc.looked
    /\ calc' = [calc EXCEPT !.looked = TRUE,
                            !.selected = GetLparInfoFrom(calc.entries, calc.lpar_name, 1)]
    /\ UNCHANGED <<run, srv, cli, lv, vtd, env>>

NextLpar == LookupLpar

SpecLpar == InitLpar /\ [][NextLpar]_vars

-----------------------------------------------------------------------------
(* The search token of main() on its own: the lpar_id query prints the       *)
(* partition id in decimal and a newline, and                                *)
(*   partition_id = out.strip(); part_id_hex = "0x%08x" % int(partition_id)  *)
(* The ids are the small ones, those around each power of 16, and the        *)
(* largest the model's integers hold, 2^31 - 1.                              *)

MaxPartId == 40

PartIds ==
    (0..MaxPartId)
    \cup UNION { {16^k - 1, 16^k, 16^k + 10} : k \in 1..7 }
    \cup { 2 * (2^30 - 1) + 1 }

InitHex ==
    /\ run = [r \in Runs |-> InitRun("cli")]
    /\ srv = [s \in Slots |-> Free]
    /\ cli = [s \in Slots |-> Free]
    /\ lv = Free
    /\ vtd = Free
    /\ env = [runs |-> "none", faults |-> FALSE, others |-> FALSE, taken |-> 0]
    /\ \E n \in PartIds :
          calc = [ fn          |-> "PartIdHex",
                   n           |-> n,
                   out         |-> DecText(n) \o <<"\n">>,
                   rendered    |-> FALSE,
                   part_id_hex |-> << >> ]

RenderPartIdHex ==
    /\ calc.fn = "PartIdHex"
    /\ ~calc.rendered
    /\ calc' = [calc EXCEPT !.rendered = TRUE,
                            !.part_id_hex = PartIdHex(IntOrZero(Strip(calc.out)))]
    /\ UNCHANGED <<run, srv, cli, lv, vtd, env>>

NextHex == RenderPartIdHex

SpecHex == InitHex /\ [][NextHex]_vars

-----------------------------------------------------------------------------
(* Properties.                                                               *)

Done(r) == run[r].pc = "done"

Elements(list) == {list[i] : i \in 1..Len(list)}

NoDuplicates(list) == \A i, j \in 1..Len(list) : list[i] = list[j] => i = j

(* The place of a kind in the forward sequence M1..M4. *)
Rank(kind) ==
    CASE kind = "server_adapter" -> 1
      [] kind = "client_adapter" -> 2
      [] kind = "lv"             -> 3
      [] kind = "vtd"            -> 4

Ascending(list) == \A i, j \in 1..Len(list) : i < j => Rank(list[i]) < Rank(list[j])

Descending(list) == \A i, j \in 1..Len(list) : i < j => Rank(list[i]) > Rank(list[j])

(* The latest forward mutating command answered nonzero without the benign  *)
(* text of its step / with it.                                               *)
BenignText(kind) ==
    CASE kind = "server_adapter" -> <<"already", "exists">>
      [] kind = "client_adapter" -> <<"virtual", "adapter", "has", "been", "specified">>
      [] kind = "lv"             -> <<"already", "used">>
      [] kind = "vtd"            -> <<"already", "exists">>

LastHard(r, kind) ==
    /\ run[r].last.kind = kind
    /\ run[r].last.rc # 0
    /\ ~Contains(BenignText(kind), Messages[run[r].last.out] \o Messages[run[r].last.err])

LastBenign(r, kind) ==
    /\ run[r].last.kind = kind
    /\ run[r].last.rc # 0
    /\ Contains(BenignText(kind), Messages[run[r].last.out] \o Messages[run[r].last.err])

(* C1: when mkvdev (M4) fails hard after chhwres (M1), chsyscfg (M2) and     *)
(* mklv (M3) each returned 0, the compensating commands issued by the end of *)
(* the run are exactly rmlv, the client-adapter removal and the              *)
(* server-adapter removal, in that order, and rmvdev is not among them.      *)
C1_RollbackAfterMappingFailure ==
    \A r \in Runs :
        (Done(r) /\ LastHard(r, "vtd") /\ run[r].rc0 = {"server_adapter", "client_adapter", "lv"})
            => run[r].comps = <<"lv", "client_adapter", "server_adapter">>

(* C2 as stated: at every point of a run the rollback list holds exactly the *)
(* kinds whose forward command returned 0, without duplicates and in forward *)
(* order, and no compensating command goes to a kind that did not return 0.  *)
C2_ListInForwardOrderAlways ==
    \A r \in Runs :
        /\ Elements(run[r].rollback) = run[r].rc0
        /\ NoDuplicates(run[r].rollback)
        /\ Ascending(run[r].rollback)
        /\ Elements(run[r].comps) \subseteq run[r].rc0

(* The exception handler has reversed the list (rollback.reverse()). *)
Reversed(r) ==
    \/ run[r].pc \in {"rollback", "rollback_connect", "rollback_close", "fail_rollback"}
    \/ run[r].has_steps

(* C2, amended: at every point of a run the rollback list holds exactly the  *)
(* kinds whose forward command returned 0 (so none that was found already    *)
(* satisfied), without duplicates; it is in forward order until the          *)
(* exception handler reverses it in place, and in reverse order from then    *)
(* on; a compensating command is issued only for a kind that returned 0, and *)
(* only on a resource this run holds or that is gone.                        *)
C2_ListIsWhatTheRunCreated ==
    \A r \in Runs :
        /\ Elements(run[r].rollback) = run[r].rc0
        /\ NoDuplicates(run[r].rollback)
        /\ IF Reversed(r) THEN Descending(run[r].rollback) ELSE Ascending(run[r].rollback)
        /\ \A k \in Kinds : LastBenign(r, k) => k \notin Elements(run[r].rollback)
        /\ Elements(run[r].comps) \subseteq run[r].rc0
        /\ ("lv" \in run[r].rc0 /\ "lv" \notin Elements(run[r].comps)) => lv = r
        /\ ("vtd" \in run[r].rc0 /\ "vtd" \notin Elements(run[r].comps)) => vtd = r
        /\ ("server_adapter" \in run[r].rc0 /\ "server_adapter" \notin Elements(run[r].comps))
              => srv[SlotOf(run[r].vios_slot)] = r
        /\ ("client_adapter" \in run[r].rc0 /\ "client_adapter" \notin Elements(run[r].comps))
              => cli[SlotOf(run[r].lpar_slot)] = r

(* C2's case: three kinds recorded, the mapping found already there. *)
C2_Witness ==
    \E r \in Runs :
        /\ run[r].rollback = <<"server_adapter", "client_adapter", "lv">>
        /\ LastBenign(r, "vtd")
        /\ run[r].pc = "lsmap_vhost"

(* C3: a second run with the same parameters, begun after a first run ended  *)
(* in success, with nothing failing, ends in success with changed = false,   *)
(* an empty rollback list and no mutating command that returned 0.           *)
C3_SecondRunChangesNothing ==
    ( /\ Done("r2")
      /\ run["r2"].after = "after_success"
      /\ run["r2"].variant = run["r1"].variant
      /\ run["r1"].rc0 = Kinds
      /\ ~run["r2"].faulted )
        => /\ run["r2"].outcome = "exit_json"
           /\ ~run["r2"].changed
           /\ run["r2"].rollback = << >>
           /\ run["r2"].rc0 = {}

(* The statements that issue a forward mutating command, and their kinds. *)
MutatingPcs == {"add_server", "add_client", "mklv", "mkvdev"}

KindAt(pc) ==
    CASE pc = "add_server" -> "server_adapter"
      [] pc = "add_client" -> "client_adapter"
      [] pc = "mklv"       -> "lv"
      [] pc = "mkvdev"     -> "vtd"

FollowerOf(pc) ==
    CASE pc = "add_server" -> "add_client"
      [] pc = "add_client" -> "sleep"
      [] pc = "mklv"       -> "lsmap_all"
      [] pc = "mkvdev"     -> "lsmap_vhost"

(* The statements of the forward sequence (all but the finally blocks). *)
ForwardPcs ==
    {CliSteps[i] : i \in 1..(Len(CliSteps) - 1)} \cup {ApiSteps[i] : i \in 1..(Len(ApiSteps) - 1)}

(* C4: at each of the four mutating steps, a nonzero exit whose stdout+stderr *)
(* contains the step's benign-duplicate text lets the run go on to the next  *)
(* statement with the rollback list and the changed flag as they were; a     *)
(* nonzero exit with any other text ends the run in fail_json, and once a    *)
(* run has failed no forward statement is executed any more.                 *)
C4_Step(r) ==
    /\ ( run[r].pc \in MutatingPcs /\ run'[r].last.kind = KindAt(run[r].pc) /\ run'[r].last.rc # 0 )
         => LET a == run'[r].last
                benign == Contains(BenignText(a.kind), Messages[a.out] \o Messages[a.err])
            IN  IF benign
                THEN /\ run'[r].pc = FollowerOf(run[r].pc)
                     /\ run'[r].rollback = run[r].rollback
                     /\ run'[r].changed = run[r].changed
                     /\ run'[r].outcome = "none"
                ELSE /\ run'[r].outcome = "fail_json"
                     /\ run'[r].exc = "SystemExit"
                     /\ run'[r].pc \notin ForwardPcs
    /\ run[r].outcome = "fail_json" => run'[r].pc \notin ForwardPcs

C4_BenignDuplicateClassification == [][\A r \in Runs : C4_Step(r)]_vars

(* C4's case: the client adapter was found already there and the run goes on. *)
C4_Witness ==
    \E r \in Runs :
        /\ LastBenign(r, "client_adapter")
        /\ run[r].pc = "sleep"
        /\ ~run[r].changed

C6_VhostFailureRollsBack ==
    \A r \in Runs :
        (Done(r) /\ run[r].msg = "No vhost adapter found" /\ run[r].rc0 # {})
            => /\ Elements(run[r].comps) = run[r].rc0
               /\ Len(run[r].comps) = Cardinality(run[r].rc0)
               /\ Descending(run[r].comps)

(* C7: while no mutating command of the run has returned 0, no compensating  *)
(* command has been issued and no command of the run has changed the         *)
(* controller; so a run that fails in that condition leaves it as it was.    *)
C7_FailureBeforeMutation ==
    \A r \in Runs :
        run[r].rc0 = {} => /\ run[r].comps = << >>
                           /\ ~run[r].touched
                           /\ run[r].rollback = << >>
                           /\ ~run[r].changed

(* C7's case: a query raised, the handler ran with nothing to undo. *)
C7_Witness ==
    \E r \in Runs :
        /\ Done(r)
        /\ run[r].outcome = "fail_json"
        /\ run[r].has_steps
        /\ run[r].error = "q_profile"
        /\ run[r].rc0 = {}

(* The rollback loop has been left. *)
LoopLeft(r) == run[r].has_steps \/ run[r].pc \in {"rollback_close", "fail_rollback"}

(* C8: a compensating command that fails or raises does not stop the         *)
(* rollback: in the loop, the commands issued so far are those of the steps  *)
(* passed; once the loop is left after a first command was issued, one       *)
(* command has been issued for every recorded step; and the failure the run  *)
(* reports is the exception of the forward statement, not one of rollback.   *)
C8_RollbackFailuresSwallowed ==
    \A r \in Runs :
        /\ run[r].pc = "rollback" => run[r].comps = SubSeq(run[r].rollback, 1, run[r].rb_i - 1)
        /\ (LoopLeft(r) /\ run[r].comps # << >>) => run[r].comps = run[r].rollback
        /\ run[r].has_steps => /\ run[r].outcome = "fail_json"
                               /\ run[r].cause = run[r].error
                               /\ run[r].cause \in ForwardPcs

(* C8's case: the first compensation raised, the second failed, the third ran. *)
C8_Witness ==
    \E r \in Runs :
        /\ Done(r)
        /\ run[r].comps = <<"lv", "client_adapter", "server_adapter">>
        /\ run[r].comp_ends = <<"raised", "failed", "ok">>

(* C9: a run that ends in failure after the handler ran reports the message  *)
(* of the exception that started it and a rollback_steps list equal to the   *)
(* sequence of compensating commands that were issued.                       *)
C9_ReportListsWhatWasAttempted ==
    \A r \in Runs :
        (Done(r) /\ run[r].has_steps)
            => /\ run[r].cause = run[r].error
               /\ run[r].rollback_steps = run[r].comps

(* The first line of the listing that carries the id, by construction (0: none). *)
FirstLineWith(ls, id) ==
    IF \E i \in 1..Len(ls) : id \in {ls[i].first.id, ls[i].rest.id}
    THEN CHOOSE i \in 1..Len(ls) :
            /\ id \in {ls[i].first.id, ls[i].rest.id}
            /\ \A j \in 1..(i - 1) : id \notin {ls[j].first.id, ls[j].rest.id}
    ELSE 0

(* C10 as stated: whenever some line of the listing contains the target's    *)
(* identifier token, the search succeeds and returns the first column of the *)
(* first such line.                                                          *)
C10_FirstMatchAlwaysResolves ==
    (calc.fn = "FindVhost" /\ calc.searched /\ FirstLineWith(calc.lines, calc.id) # 0)
        => /\ calc.found
           /\ calc.vhost = calc.lines[FirstLineWith(calc.lines, calc.id)].first.name

(* C10, amended: the search looks at the first line that contains the        *)
(* identifier token (in any case of the hex digits) and at no other: its     *)
(* result is that line's first column with surrounding whitespace removed,   *)
(* and it succeeds exactly when that text is not empty; with no such line it *)
(* fails.                                                                    *)
C10_FirstMatchResolvesUnlessBlank ==
    (calc.fn = "FindVhost" /\ calc.searched)
        => LET i == FirstLineWith(calc.lines, calc.id)
           IN  IF i = 0
               THEN ~calc.found
               ELSE /\ calc.vhost = calc.lines[i].first.name
                    /\ calc.found <=> (calc.lines[i].first.name # << >>)

(* C10's case: two lines carry the id under different names; the first wins. *)
C10_Witness ==
    /\ calc.fn = "FindVhost"
    /\ calc.searched
    /\ Len(calc.lines) = 2
    /\ \A i \in 1..2 : calc.lines[i].rest.id = calc.id
    /\ calc.lines[1].first.name = VhostName(2)
    /\ calc.lines[2].first.name = VhostName(1)
    /\ calc.found
    /\ calc.vhost = VhostName(2)

(* C11: when no line of the listing that lsmap -all returned contains the    *)
(* run's identifier token, the run ends in fail_json "No vhost adapter       *)
(* found", the failure carries the whole listing as lsmap_output, and        *)
(* neither mkvdev nor lsmap -vadapter is issued.                             *)
C11_AbsentIdentifierFails ==
    \A r \in Runs :
        (run[r].listed /\ ~Contains(Lower(run[r].part_id_hex), Lower(run[r].listing)))
            => /\ run[r].outcome = "fail_json"
               /\ run[r].msg = "No vhost adapter found"
               /\ run[r].has_lsmap_output
               /\ run[r].lsmap_output = run[r].listing
               /\ \A i \in 1..Len(run[r].issued) : run[r].issued[i] \notin {"mkvdev", "lsmap_vhost"}
               /\ run[r].pc \notin {"mkvdev", "lsmap_vhost"}

(* C11's case: the listing has a line, of another partition, and the run ended. *)
C11_Witness ==
    \E r \in Runs :
        /\ Done(r)
        /\ run[r].listed
        /\ run[r].listing # << >>
        /\ ~Contains(Lower(run[r].part_id_hex), Lower(run[r].listing))
        /\ run[r].lsmap_output = run[r].listing

(* The name before truncation: the given name, or 11 characters and "_vtd". *)
Untruncated(param, lpar_name) ==
    IF param.given /\ Len(param.text) > 0
    THEN param.text
    ELSE [i \in 1..(IF Len(lpar_name) < 11 THEN Len(lpar_name) ELSE 11) |-> lpar_name[i]]
         \o <<"_", "v", "t", "d">>

(* C12: the mapping-device name has at most 15 characters; it is the         *)
(* untruncated name (the caller's non-empty vtd_name, otherwise the first 11 *)
(* characters of lpar_name followed by "_vtd") when that has at most 15      *)
(* characters, and exactly its first 15 characters otherwise.                *)
C12_VtdNameTruncation ==
    (calc.fn = "VtdName" /\ calc.derived)
        => LET full == Untruncated(calc.param, calc.lpar_name)
           IN  /\ Len(calc.vtd_name) <= 15
               /\ Len(full) <= 15 => calc.vtd_name = full
               /\ Len(full) > 15 => /\ Len(calc.vtd_name) = 15
                                    /\ \A i \in 1..15 : calc.vtd_name[i] = full[i]

(* C12's case: a caller's name of 16 characters was cut to 15. *)
C12_Witness ==
    /\ calc.fn = "VtdName"
    /\ calc.derived
    /\ calc.param.given
    /\ Len(calc.param.text) = 16
    /\ Len(calc.vtd_name) = 15
    /\ calc.vtd_name[15] = calc.param.text[15]

(* C13: cfgdev never aborts the run: whatever exit status and output the     *)
(* command returns, the run goes on to the statement that follows it on the  *)
(* way to mklv (cli: the lpar_id query; api: mklv itself), with the rollback *)
(* list and the changed flag as they were.                                   *)
C13_Step(r) ==
    (run[r].pc = "cfgdev" /\ run'[r].pc # "cfgdev" /\ run'[r].last.kind = "cfgdev")
        => /\ run'[r].pc = IF run[r].variant = "cli" THEN "q_part_id" ELSE "mklv"
           /\ run'[r].outcome = "none"
           /\ run'[r].exc = "none"
           /\ run'[r].rollback = run[r].rollback
           /\ run'[r].changed = run[r].changed
           /\ run'[r].rc0 = run[r].rc0

C13_RescanNeverAborts == [][\A r \in Runs : C13_Step(r)]_vars

(* C13's case: cfgdev failed and the hybrid run is at mklv. *)
C13_Witness ==
    \E r \in Runs :
        /\ run[r].last.kind = "cfgdev"
        /\ run[r].last.rc # 0
        /\ run[r].pc = "mklv"
        /\ run[r].outcome = "none"

(* The saga state that a forward statement belongs to: 1 ResolveIdentities,  *)
(* 2 EnsureServerAdapter, 3 EnsureClientAdapter, 4 RescanDevices,            *)
(* 5 EnsureLogicalVolume, 6 ResolveVhost, 7 EnsureMapping, 8 VerifyMapping.  *)
SagaState(pc) ==
    CASE pc = "add_server"  -> 2
      [] pc = "add_client"  -> 3
      [] pc \in {"sleep", "cfgdev"} -> 4
      [] pc = "mklv"        -> 5
      [] pc = "lsmap_all"   -> 6
      [] pc = "mkvdev"      -> 7
      [] pc = "lsmap_vhost" -> 8
      [] OTHER              -> 1

(* C14: the commands of a run are issued in the order of the saga states:    *)
(* once a state is left it is not entered again, no state is skipped, and a  *)
(* run that ends in success has been through all of them.                    *)
C14_StatesInOrder ==
    \A r \in Runs :
        LET states == [i \in 1..Len(run[r].issued) |-> SagaState(run[r].issued[i])]
        IN  /\ \A i \in 1..(Len(states) - 1) :
                  states[i] <= states[i + 1] /\ states[i + 1] <= states[i] + 1
            /\ run[r].outcome = "exit_json" => {states[i] : i \in 1..Len(states)} = 1..8

(* The identity-resolution queries of a run. *)
IdentityQueries ==
    {"get_ms", "get_lpar", "get_vios", "q_vios_id", "q_lpar_slot", "q_vios_slot", "q_profile", "q_part_id"}

(* C15: every identity-resolution query of a run is issued before the run's  *)
(* first mutating command, so a run that ends at a failed resolution has     *)
(* had no mutating command return 0.                                         *)
C15_ResolutionBeforeMutation ==
    \A r \in Runs :
        /\ \A i, j \in 1..Len(run[r].issued) :
              (run[r].issued[i] \in IdentityQueries /\ run[r].issued[j] \in MutatingPcs) => i < j
        /\ ( /\ run[r].outcome = "fail_json"
             /\ run[r].issued # << >>
             /\ run[r].issued[Len(run[r].issued)] \in IdentityQueries ) => run[r].rc0 = {}

(* The kinds whose forward command returned 0, in the order of the steps. *)
RecordedKinds(r) ==
    SelectSeq(<<"server_adapter", "client_adapter", "lv", "vtd">>, LAMBDA k : k \in run[r].rc0)

ReverseOf(seq) == [i \in 1..Len(seq) |-> seq[Len(seq) + 1 - i]]

(* The mutating commands a run has issued, and what the run holds in its     *)
(* rollback list, said without the variant: the commands are the first ones  *)
(* of chhwres, chsyscfg, mklv, mkvdev, and the list holds the kinds that     *)
(* returned 0, in forward order or, once the handler ran, reversed.          *)
SameMutations(r) ==
    LET mutating == SelectSeq(run[r].issued, LAMBDA pc : pc \in MutatingPcs)
    IN  /\ mutating = SubSeq(<<"add_server", "add_client", "mklv", "mkvdev">>, 1, Len(mutating))
        /\ run[r].rollback \in {RecordedKinds(r), ReverseOf(RecordedKinds(r))}

BothAddedSameSlot ==
    /\ run["r1"].vios_slot = run["r2"].vios_slot
    /\ run["r1"].vios_slot # << >>
    /\ \A r \in Runs : \E i \in 1..Len(run[r].issued) : run[r].issued[i] = "add_server"

(* C17: nothing keeps two runs from reading the same next-available slot and *)
(* adding the server adapter in it; when they do, one of them creates the    *)
(* adapter and the other gets "already exists", records nothing for it and   *)
(* is not failed by it: it goes on with an adapter that the first created.   *)
C17_RaceOnSlot ==
    BothAddedSameSlot =>
        \E w \in Runs :
            LET o == CHOOSE x \in Runs : x # w
            IN  /\ "server_adapter" \in run[w].rc0
                /\ "server_adapter" \notin run[o].rc0
                /\ \A i \in 1..Len(run[o].rollback) : run[o].rollback[i] # "server_adapter"
                /\ run[o].msg # "chhwres (add vSCSI server) failed"
                /\ \E s \in 1..MaxSlots :
                      /\ run[o].vios_slot = DecText(s)
                      /\ srv[s] = w

(* C17's case: the second run has ended in success, mapped on the vhost of   *)
(* the adapter that the first run created.                                   *)
C17_Witness ==
    /\ BothAddedSameSlot
    /\ "server_adapter" \in run["r1"].rc0
    /\ "server_adapter" \notin run["r2"].rc0
    /\ Done("r2")
    /\ run["r2"].outcome = "exit_json"
    /\ \E s \in 1..MaxSlots :
          /\ run["r2"].vios_slot = DecText(s)
          /\ srv[s] = "r1"
          /\ run["r2"].vhost = <<"v", "h", "o", "s", "t">> \o DecText(s)

(* C18: at every point of a run, changed is true exactly when the rollback   *)
(* list is not empty, and exactly when one of the four mutating commands of  *)
(* the run has returned 0; so is the flag that a successful run reports.     *)
C18_ChangedIffRecorded ==
    \A r \in Runs :
        /\ run[r].changed <=> (run[r].rollback # << >>)
        /\ run[r].changed <=> (run[r].rc0 # {})

(* C18's case: a run ended in success after a step that found its resource there. *)
C18_Witness ==
    \E r \in Runs :
        /\ Done(r)
        /\ run[r].outcome = "exit_json"
        /\ run[r].changed
        /\ run[r].rc0 # {}
        /\ run[r].rc0 # {"server_adapter", "client_adapter", "lv", "vtd"}

(* C19: run_ssh_command never ends the run by itself: no run ends with the   *)
(* "Command failed" of the helper, whatever the exit code of a command.      *)
C19_CommandNeverEndsRun ==
    \A r \in Runs : run[r].msg # "Command failed"

PositionsOf(r, pc) == {i \in 1..Len(run[r].issued) : run[r].issued[i] = pc}

(* C21: a run waits (time.sleep) at most once; when cfgdev is issued the     *)
(* wait has taken place exactly once, directly after the client-adapter step *)
(* and directly before cfgdev; cfgdev is never issued without it, and a run  *)
(* that is about to issue cfgdev has waited.                                 *)
C21_WaitOnceBeforeRescan ==
    \A r \in Runs :
        /\ Cardinality(PositionsOf(r, "sleep")) <= 1
        /\ Cardinality(PositionsOf(r, "cfgdev")) <= 1
        /\ \A i \in PositionsOf(r, "sleep") :
              i > 1 /\ run[r].issued[i - 1] = "add_client"
        /\ \A i \in PositionsOf(r, "cfgdev") :
              i > 2 /\ run[r].issued[i - 1] = "sleep" /\ run[r].issued[i - 2] = "add_client"
        /\ run[r].pc = "cfgdev" =>
              /\ Cardinality(PositionsOf(r, "sleep")) = 1
              /\ run[r].issued[Len(run[r].issued)] = "sleep"

(* C21's case: the run waited, cfgdev was issued and failed, the run went on. *)
C21_Witness ==
    \E r \in Runs :
        /\ PositionsOf(r, "sleep") # {}
        /\ PositionsOf(r, "cfgdev") # {}
        /\ run[r].last.kind = "cfgdev"
        /\ run[r].last.rc # 0
        /\ run[r].pc \in {"q_part_id", "mklv"}

(* C23: a run that ends in success has issued no compensating command,       *)
(* whatever its rollback list holds, and a run that has issued one never     *)
(* reaches exit_json; what the list of a successful run names is still there *)
(* and held by the run.                                                      *)
C23_NoCompensationOnSuccess ==
    \A r \in Runs :
        /\ (run[r].pc = "exit_json" \/ run[r].outcome = "exit_json")
              => /\ run[r].comps = << >>
                 /\ ~Reversed(r)
                 /\ "lv" \in Elements(run[r].rollback) => lv = r
                 /\ "vtd" \in Elements(run[r].rollback) => vtd = r
                 /\ "server_adapter" \in Elements(run[r].rollback)
                       => srv[SlotOf(run[r].vios_slot)] = r
                 /\ "client_adapter" \in Elements(run[r].rollback)
                       => cli[SlotOf(run[r].lpar_slot)] = r
        /\ run[r].comps # << >> => run[r].pc # "exit_json" /\ run[r].outcome # "exit_json"

(* C23's case: a run ended in success with all four steps in its list. *)
C23_Witness ==
    \E r \in Runs :
        /\ Done(r)
        /\ run[r].outcome = "exit_json"
        /\ run[r].rollback = <<"server_adapter", "client_adapter", "lv", "vtd">>
        /\ run[r].comps = << >>

(* The locals that the command of a step is built from (the parameters      *)
(* vios_name, lpar_name, volume_name and vtd_name are never assigned).       *)
InputsOf(locals, kind) ==
    CASE kind = "server_adapter" -> <<locals.vios_slot, locals.lpar_slot>>
      [] kind = "client_adapter" -> <<locals.profile_name, locals.lpar_slot, locals.vios_id, locals.vios_slot>>
      [] kind = "lv"             -> << >>
      [] kind = "vtd"            -> << >>

(* C24: from the moment the forward command of a step returned 0, the inputs *)
(* of the step are not assigned again, so its compensating command is built  *)
(* from the values the forward command had; and a compensating command       *)
(* changes, if anything, the very resource that the forward command of its   *)
(* step created for this run, and nothing else.                              *)
C24_Step(r) ==
    /\ \A k \in run[r].rc0 : InputsOf(run'[r], k) = InputsOf(run[r], k)
    /\ Len(run'[r].comps) = Len(run[r].comps) + 1 =>
          LET step == run'[r].comps[Len(run'[r].comps)]
          IN  /\ step \in run[r].rc0
              /\ \A s \in Slots : srv'[s] # srv[s] =>
                    /\ step = "server_adapter"
                    /\ DecText(s) = run[r].vios_slot
                    /\ srv[s] = r /\ srv'[s] = Free
              /\ \A s \in Slots : cli'[s] # cli[s] =>
                    /\ step = "client_adapter"
                    /\ DecText(s) = run[r].lpar_slot
                    /\ cli[s] = r /\ cli'[s] = Free
              /\ lv' # lv => step = "lv" /\ lv = r /\ lv' = Free
              /\ vtd' # vtd => step = "vtd" /\ vtd = r /\ vtd' = Free

C24_CompensationTargetsItsStep == [][\A r \in Runs : C24_Step(r)]_vars

(* C24's case: both adapters were added in slot 2, behind somebody else's,   *)
(* and removed again by their compensations.                                 *)
C24_Witness ==
    \E r \in Runs :
        /\ Done(r)
        /\ run[r].comps = <<"client_adapter", "server_adapter">>
        /\ run[r].comp_ends = <<"ok", "ok">>
        /\ run[r].vios_slot = <<"2">>
        /\ srv[1] = Other /\ srv[2] = Free
        /\ \A s \in Slots : cli[s] # r

(* The number that a text of lowercase hexadecimal digits denotes; -1 when   *)
(* a character is none.                                                      *)
RECURSIVE HexValue(_)
HexValue(t) ==
    IF t = << >> THEN 0
    ELSE LET d    == t[Len(t)]
             rest == HexValue(SubSeq(t, 1, Len(t) - 1))
             v    == CASE d = "0" -> 0  [] d = "1" -> 1  [] d = "2" -> 2  [] d = "3" -> 3
                       [] d = "4" -> 4  [] d = "5" -> 5  [] d = "6" -> 6  [] d = "7" -> 7
                       [] d = "8" -> 8  [] d = "9" -> 9  [] d = "a" -> 10 [] d = "b" -> 11
                       [] d = "c" -> 12 [] d = "d" -> 13 [] d = "e" -> 14 [] d = "f" -> 15
                       [] OTHER -> -1
         IN  IF rest < 0 \/ v < 0 THEN -1 ELSE 16 * rest + v

(* C25: for a partition id n (0 <= n < 2^32; here up to 2^31 - 1) the token  *)
(* searched for in the listing is "0x" followed by exactly 8 lowercase       *)
(* hexadecimal digits, zero-padded, whose value is n; 5 gives 0x00000005.    *)
C25_TokenIsEightHexDigits ==
    (calc.fn = "PartIdHex" /\ calc.rendered)
        => /\ Len(calc.part_id_hex) = 10
           /\ SubSeq(calc.part_id_hex, 1, 2) = <<"0", "x">>
           /\ HexValue(SubSeq(calc.part_id_hex, 3, 10)) = calc.n
           /\ calc.n = 5 => calc.part_id_hex = <<"0", "x", "0", "0", "0", "0", "0", "0", "0", "5">>

(* C25's case: an id whose eight digits are all used and hold letters. *)
C25_Witness ==
    /\ calc.fn = "PartIdHex"
    /\ calc.rendered
    /\ calc.n = 2 * (2^30 - 1) + 1
    /\ calc.part_id_hex = <<"0", "x", "7", "f", "f", "f", "f", "f", "f", "f">>

(* C26: when the target's partition id is not a decimal numeral (nothing, or *)
(* a text that is no number), the run does not fail there: the token is      *)
(* 0x00000000 and the run goes on; the vhost search is made with that token, *)
(* and when the listing has a line with 0x00000000 (an adapter with no       *)
(* client partition assigned) the search takes the vhost of that line.       *)
C26_UnparsedIdBecomesZero ==
    \A r \in Runs :
        run[r].unparsed =>
            /\ run[r].part_id_hex = <<"0", "x", "0", "0", "0", "0", "0", "0", "0", "0">>
            /\ run[r].pc = (IF run[r].variant = "cli" THEN "mklv" ELSE "get_vios")
                  => run[r].outcome = "none" /\ run[r].exc = "none"
            /\ (run[r].listed /\ \E s \in Slots : srv[s] = Unassigned)
                  => /\ \E s \in Slots : srv[s] = Unassigned /\ run[r].vhost = VhostName(s)
                     /\ run[r].msg # "No vhost adapter found"

(* C26's case: the id was no number and the run ended in success, with the   *)
(* volume mapped to the adapter in slot 1, which is not the one it added.    *)
C26_Witness ==
    \E r \in Runs :
        /\ run[r].unparsed
        /\ Done(r)
        /\ run[r].outcome = "exit_json"
        /\ srv[1] = Unassigned
        /\ run[r].vhost = <<"v", "h", "o", "s", "t", "1">>
        /\ run[r].vios_slot = <<"2">>
        /\ "server_adapter" \in run[r].rc0
        /\ vtd = r

(* The forward statements that run a command over SSH. *)
SshStatements ==
    { "q_lpar_slot", "q_vios_slot", "q_vios_id", "q_profile", "add_server", "add_client",
      "cfgdev", "q_part_id", "mklv", "lsmap_all", "mkvdev", "lsmap_vhost" }

(* C27: no command goes to a closed SSH session: whenever a run issues a     *)
(* forward command or a compensating command, its client is connected and    *)
(* not closed; forward commands use the first session and, in the hybrid     *)
(* variant, compensating commands use a second one, opened after the first   *)
(* was closed; the cli variant has one session for both.                     *)
C27_Step(r) ==
    /\ ( /\ Len(run'[r].issued) = Len(run[r].issued) + 1
         /\ run'[r].issued[Len(run'[r].issued)] \in SshStatements )
          => /\ run[r].open
             /\ run[r].connects = 1
             /\ run[r].closes = 0
    /\ Len(run'[r].comps) = Len(run[r].comps) + 1
          => /\ run[r].open
             /\ run[r].connects = (IF run[r].variant = "cli" THEN 1 ELSE 2)
             /\ run[r].closes = run[r].connects - 1
    /\ run[r].pc \in SshStatements \cup {"rollback"} => run[r].open

C27_NoCommandOnClosedSession == [][\A r \in Runs : C27_Step(r)]_vars

(* C27's case: a hybrid run undid a step on its second session and closed it. *)
C27_Witness ==
    \E r \in Runs :
        /\ run[r].variant = "api"
        /\ run[r].comps # << >>
        /\ run[r].connects = 2
        /\ run[r].closes = 2
        /\ ~run[r].open
        /\ run[r].pc = "fail_rollback"

(* C28: the handler is entered only after a forward statement raised an      *)
(* Exception; a hard failure of a mutating command, reported by fail_json    *)
(* (SystemExit), leads to the finally blocks only: the handler is not        *)
(* entered and no compensating command is issued, whatever the rollback list *)
(* holds, and the sessions are released.                                     *)
C28_HandlerOnlyOnException ==
    \A r \in Runs :
        /\ (run[r].pc = "except" \/ Reversed(r))
              => /\ run[r].error \in ForwardPcs
                 /\ \A k \in Kinds : ~LastHard(r, k)
        /\ \A k \in Kinds :
              LastHard(r, k)
                  => /\ run[r].outcome = "fail_json"
                     /\ run[r].exc = "SystemExit"
                     /\ run[r].pc \in {"close", "logoff", "done"}
                     /\ run[r].comps = << >>
                     /\ ~run[r].has_steps
        /\ (run[r].outcome = "fail_json" /\ ~run[r].has_steps)
              => run[r].comps = << >> /\ ~Reversed(r)
        /\ Done(r) => ~run[r].open /\ run[r].closes = run[r].connects

(* C28's case: mklv failed hard after both adapters were added; the run      *)
(* ended with both still there and nothing undone.                           *)
C28_Witness ==
    \E r \in Runs :
        /\ Done(r)
        /\ LastHard(r, "lv")
        /\ run[r].msg = "viosvrcmd mklv failed"
        /\ run[r].rollback = <<"server_adapter", "client_adapter">>
        /\ run[r].comps = << >>
        /\ run[r].closes = 1
        /\ \E s \in Slots : srv[s] = r
        /\ \E s \in Slots : cli[s] = r

(* What a run has settled about its end, at the statement it is at. *)
EndsWell(r) ==
    /\ run[r].outcome \in {"none", "exit_json", "fail_json"}
    /\ Done(r) => run[r].outcome \in {"exit_json", "fail_json"}
    /\ run[r].outcome = "exit_json" => Done(r) /\ run[r].exc = "none" /\ run[r].msg = "none"
    /\ run[r].outcome = "fail_json" => run[r].msg # "none" /\ run[r].pc # "exit_json"
    /\ Len(run[r].comps) <= 4
    /\ Len(SelectSeq(run[r].issued, LAMBDA pc : pc \in MutatingPcs)) <= 4

(* C29: every run that has begun comes to its end, and ends in exactly one   *)
(* of exit_json and fail_json: an ended run has called one of them, a run    *)
(* that has called one never calls the other, and exit_json is the last      *)
(* thing a run does; a run issues at most 4 compensating commands and at     *)
(* most 4 mutating commands.                                                 *)
C29_RunsEndInOneOutcome ==
    /\ [](\A r \in Runs : EndsWell(r))
    /\ [][\A r \in Runs : run[r].outcome # "none" => run'[r].outcome = run[r].outcome]_vars
    /\ \A r \in Runs : (run[r].pc # "main") ~> (Done(r) /\ run[r].outcome # "none")

(* C29's case: a run issued its four mutating commands, then the last query  *)
(* raised and the handler issued four compensating commands; it has ended.   *)
C29_Witness ==
    \E r \in Runs :
        /\ Done(r)
        /\ run[r].outcome = "fail_json"
        /\ run[r].error = "lsmap_vhost"
        /\ Len(run[r].comps) = 4
        /\ Len(SelectSeq(run[r].issued, LAMBDA pc : pc \in MutatingPcs)) = 4

(* The values of an entry that bear a name: the texts of its name elements   *)
(* without surrounding whitespace, and its name attributes.                  *)
NamesIn(entry) ==
    {Strip(entry[i].text) : i \in {j \in 1..Len(entry) :
                                     entry[j].tag \in {"PartitionName", "partitionName", "name", "Name"}}}
    \cup {entry[i].attr.text : i \in {j \in 1..Len(entry) : entry[j].attr.given}}

ExactlyNamed(entry, name) == name \in NamesIn(entry)

(* The case-insensitive match looks at one name of the entry, the first    *)
(* that _entry_get_any_name finds.                                           *)
NamedIgnoringCase(entry, name) == Lower(Strip(EntryGetAnyName(entry))) = Lower(Strip(name))

(* C22: get_lpar_info selects an entry whose name equals the requested name  *)
(* exactly whenever the feed has one; an entry is selected on the            *)
(* case-insensitive match only when no entry of the feed matches exactly;    *)
(* the lookup fails only when no entry matches either way (exactly, or       *)
(* ignoring case on the name the fallback looks at).                         *)
C22_ExactMatchPreferred ==
    (calc.fn = "GetLparInfo" /\ calc.looked)
        => LET exact == {i \in 1..Len(calc.entries) : ExactlyNamed(calc.entries[i], calc.lpar_name)}
               either == exact \cup {i \in 1..Len(calc.entries) :
                                         NamedIgnoringCase(calc.entries[i], calc.lpar_name)}
           IN  /\ exact # {} => calc.selected \in exact
               /\ (calc.selected # 0 /\ calc.selected \notin exact)
                      => exact = {} /\ calc.selected \in either
               /\ calc.selected = 0 => either = {}

====
